---------------------------- MODULE Spec2Model ----------------------------
(***************************************************************************)
(* Model of the messaging rescaler (src/messaging/src/rescaler.rs):        *)
(* MessagingRescaler::rescale, the moving-average scaling policy of the    *)
(* messaging subsystem, and the test driver of the same file.              *)
(*                                                                         *)
(* Numbers.  The code computes in f64.  The model computes the same        *)
(* expressions, in the same order, over exact rationals extended with the  *)
(* IEEE special values NaN, +inf and -inf (what a division by a zero       *)
(* interval produces).  Rounding of finite results is not modelled, and    *)
(* the two signed zeros are identified.  TLC integers are 32 bits wide, so *)
(* numerators and denominators are kept as sequences of base-10000 limbs.  *)
(***************************************************************************)
EXTENDS Integers, Sequences, FiniteSets, TLC

---------------------------------------------------------------------------
(* Evaluation.  An operator's argument is an expression, evaluated where   *)
(* the parameter is used.  The operators below bind each argument to its   *)
(* value once, as the one element of a set ({e : x \in {a}}), and The      *)
(* takes the result out of the set, so that every expression of the code   *)
(* is computed once, as in the code.                                       *)

The(S) == CHOOSE r \in S : TRUE

---------------------------------------------------------------------------
(* Natural numbers of any size: little-endian limbs in 0..9999, no leading *)
(* zero limb, zero is the empty sequence.                                  *)

RECURSIVE BTrim(_)
BTrim(a) ==
  The({IF x = <<>> THEN <<>>
       ELSE IF x[Len(x)] = 0 THEN BTrim(SubSeq(x, 1, Len(x) - 1))
       ELSE x : x \in {a}})

RECURSIVE BFromInt(_)
BFromInt(i) ==
  IF i = 0 THEN <<>> ELSE <<i % 10000>> \o BFromInt(i \div 10000)

BHead(x) == IF x = <<>> THEN 0 ELSE Head(x)

BTail(x) == IF x = <<>> THEN <<>> ELSE Tail(x)

\* a + b + c0 for a carry c0.
RECURSIVE BAddC(_, _, _)
BAddC(a, b, c0) ==
  The({IF y = <<>> /\ c = 0 THEN x
       ELSE IF x = <<>> /\ c = 0 THEN y
       ELSE IF x = <<>> /\ y = <<>> THEN <<c>>
       ELSE The({<<s % 10000>> \o BAddC(BTail(x), BTail(y), s \div 10000) :
                 s \in {BHead(x) + BHead(y) + c}})
       : x \in {a}, y \in {b}, c \in {c0}})

BAdd(x, y) == BAddC(x, y, 0)

\* a - b - b0 for a >= b, with borrow b0.
RECURSIVE BSubC(_, _, _)
BSubC(a, b, b0) ==
  The({IF x = <<>> THEN <<>>
       ELSE The({IF s < 0 THEN <<s + 10000>> \o BSubC(Tail(x), BTail(y), 1)
                          ELSE <<s>> \o BSubC(Tail(x), BTail(y), 0) :
                 s \in {Head(x) - BHead(y) - b0}})
       : x \in {a}, y \in {b}})

BSub(x, y) == BTrim(BSubC(x, y, 0))

\* -1, 0 or 1 as x is below, equal to or above y, on the limbs 1..i of two
\* sequences of sequence values.
RECURSIVE BCmpAt(_, _, _)
BCmpAt(x, y, i) ==
  IF i = 0 THEN 0
  ELSE IF x[i] < y[i] THEN -1
  ELSE IF x[i] > y[i] THEN 1
  ELSE BCmpAt(x, y, i - 1)

BCmp(a, b) ==
  The({IF Len(x) < Len(y) THEN -1
       ELSE IF Len(x) > Len(y) THEN 1
       ELSE BCmpAt(x, y, Len(x)) : x \in {a}, y \in {b}})

\* a * m + acc0 + c0 for a single limb m.
RECURSIVE BMulAdd(_, _, _, _)
BMulAdd(a, m, acc0, c0) ==
  The({IF x = <<>> THEN BAddC(acc, <<>>, c)
       ELSE The({<<s % 10000>> \o
                   BMulAdd(Tail(x), m, BTail(acc), s \div 10000) :
                 s \in {Head(x) * m + BHead(acc) + c}})
       : x \in {a}, acc \in {acc0}, c \in {c0}})

\* x * y for x, y > 0: x times the lowest limb of y, plus x times the rest
\* of y shifted by one limb.
RECURSIVE BMulPos(_, _)
BMulPos(x, y) ==
  IF Len(y) = 1 THEN BMulAdd(x, y[1], <<>>, 0)
  ELSE BMulAdd(x, y[1], <<0>> \o BMulPos(x, Tail(y)), 0)

BMul(a, b) ==
  The({IF x = <<>> \/ y = <<>> THEN <<>>
       ELSE IF y = <<1>> THEN x
       ELSE IF x = <<1>> THEN y
       ELSE IF Len(x) < Len(y) THEN BMulPos(y, x)
       ELSE BMulPos(x, y) : x \in {a}, y \in {b}})

\* x mod p and x div p for a small p > 0, from the top limb down to limb 1.
RECURSIVE BModFrom(_, _, _, _)
BModFrom(x, p, i, rem0) ==
  IF i = 0 THEN rem0
  ELSE The({BModFrom(x, p, i - 1, rem) : rem \in {(rem0 * 10000 + x[i]) % p}})

BModSmall(a, p) == The({BModFrom(x, p, Len(x), 0) : x \in {a}})

RECURSIVE BDivFrom(_, _, _, _)
BDivFrom(x, p, i, rem) ==
  IF i = 0 THEN <<>>
  ELSE The({Append(BDivFrom(x, p, i - 1, cur % p), cur \div p) :
            cur \in {rem * 10000 + x[i]}})

BDivSmall(a, p) == The({BTrim(BDivFrom(x, p, Len(x), 0)) : x \in {a}})

---------------------------------------------------------------------------
(* f64 values: a finite value is sg * num / den (sg is the sign, -1, 0 or  *)
(* 1, and den > 0); the others are NaN and the two infinities.             *)

Fin(s0, n0, d0) ==
  The({IF num = <<>> \/ sg = 0
       THEN [k |-> "fin", sg |-> 0, num |-> <<>>, den |-> <<1>>]
       ELSE [k |-> "fin", sg |-> sg, num |-> num, den |-> d0]
       : sg \in {s0}, num \in {n0}})

NaN == [k |-> "nan", sg |-> 0, num |-> <<>>, den |-> <<1>>]

Inf(sg) == [k |-> "inf", sg |-> sg, num |-> <<>>, den |-> <<1>>]

Sign(i) == IF i < 0 THEN -1 ELSE IF i > 0 THEN 1 ELSE 0

Abs(i) == IF i < 0 THEN -i ELSE i

\* The same finite value with the common factors p of numerator and
\* denominator removed.
RECURSIVE ReduceBy(_, _)
ReduceBy(a, p) ==
  The({IF BModSmall(x.num, p) = 0 /\ BModSmall(x.den, p) = 0
       THEN ReduceBy([x EXCEPT !.num = BDivSmall(x.num, p),
                               !.den = BDivSmall(x.den, p)], p)
       ELSE x : x \in {a}})

\* The same finite value with the common factors 2, 3 and 5 removed: lowest
\* terms for the values of this model, whose denominators come from decimal
\* literals, powers of two and intervals of 1 and 60 seconds.  Only the
\* representation changes, never the value.
Reduce(a) ==
  The({IF x.k # "fin" \/ x.sg = 0 THEN x
       ELSE ReduceBy(ReduceBy(ReduceBy(x, 2), 5), 3) : x \in {a}})

\* The decimal literal n/d (d > 0), taken exactly, and `i as f64`.
Dec(n, d) == Reduce(Fin(Sign(n), BFromInt(Abs(n)), BFromInt(d)))

FInt(i) == Fin(Sign(i), BFromInt(Abs(i)), <<1>>)

\* n/d for 0 < n, d < 10000.
Q(n, d) == [k |-> "fin", sg |-> 1, num |-> <<n>>, den |-> <<d>>]

\* A time of m microseconds, in seconds: m/1000000.
Micros(m) == Fin(Sign(m), BFromInt(Abs(m)), <<0, 100>>)

FNeg(x) == [x EXCEPT !.sg = -x.sg]

\* Sign of the finite difference a - b.
CmpFin(a, b) ==
  The({IF x.sg # y.sg THEN (IF x.sg < y.sg THEN -1 ELSE 1)
       ELSE IF x.sg = 0 THEN 0
       ELSE IF x.den = y.den THEN x.sg * BCmp(x.num, y.num)
       ELSE x.sg * BCmp(BMul(x.num, y.den), BMul(y.num, x.den))
       : x \in {a}, y \in {b}})

\* IEEE comparisons: every comparison with NaN is false.
FLt(a, b) ==
  \E x \in {a}, y \in {b} :
    IF x.k = "nan" \/ y.k = "nan" THEN FALSE
    ELSE IF x.k = "inf" THEN x.sg < 0 /\ ~(y.k = "inf" /\ y.sg < 0)
    ELSE IF y.k = "inf" THEN y.sg > 0
    ELSE CmpFin(x, y) < 0

FGt(x, y) == FLt(y, x)

FEq(a, b) ==
  \E x \in {a}, y \in {b} :
    IF x.k = "nan" \/ y.k = "nan" THEN FALSE
    ELSE IF x.k = "inf" \/ y.k = "inf" THEN x.k = y.k /\ x.sg = y.sg
    ELSE CmpFin(x, y) = 0

FGe(a, b) == \E x \in {a}, y \in {b} : FGt(x, y) \/ FEq(x, y)

\* The sum of two finite nonzero values, over their common denominator d.
FAddFin(x, y) ==
  The({IF x.sg = y.sg THEN Fin(x.sg, BAdd(n, m), d)
       ELSE The({IF c = 0 THEN Fin(0, <<>>, <<1>>)
                 ELSE IF c > 0 THEN Fin(x.sg, BSub(n, m), d)
                 ELSE Fin(y.sg, BSub(m, n), d) : c \in {BCmp(n, m)}})
       : n \in {IF x.den = y.den THEN x.num ELSE BMul(x.num, y.den)},
         m \in {IF x.den = y.den THEN y.num ELSE BMul(y.num, x.den)},
         d \in {IF x.den = y.den THEN x.den ELSE BMul(x.den, y.den)}})

FAdd(a, b) ==
  The({IF x.k = "nan" \/ y.k = "nan" THEN NaN
       ELSE IF x.k = "inf"
            THEN (IF y.k = "inf" /\ y.sg # x.sg THEN NaN ELSE x)
       ELSE IF y.k = "inf" THEN y
       ELSE IF x.sg = 0 THEN y
       ELSE IF y.sg = 0 THEN x
       ELSE FAddFin(x, y) : x \in {a}, y \in {b}})

FSub(x, y) == FAdd(x, FNeg(y))

FMul(a, b) ==
  The({IF x.k = "nan" \/ y.k = "nan" THEN NaN
       ELSE IF x.k = "inf" \/ y.k = "inf"
            THEN (IF x.sg = 0 \/ y.sg = 0 THEN NaN ELSE Inf(x.sg * y.sg))
       ELSE Fin(x.sg * y.sg, BMul(x.num, y.num), BMul(x.den, y.den))
       : x \in {a}, y \in {b}})

\* A zero divisor is +0.0 wherever the code divides (an integer cast to f64).
FDiv(a, b) ==
  The({IF x.k = "nan" \/ y.k = "nan" THEN NaN
       ELSE IF x.k = "inf"
            THEN (IF y.k = "inf" THEN NaN
                  ELSE Inf(IF y.sg < 0 THEN -x.sg ELSE x.sg))
       ELSE IF y.k = "inf" THEN Fin(0, <<>>, <<1>>)
       ELSE IF y.sg = 0 THEN (IF x.sg = 0 THEN NaN ELSE Inf(x.sg))
       ELSE Fin(x.sg * y.sg, BMul(x.num, y.den), BMul(x.den, y.num))
       : x \in {a}, y \in {b}})

---------------------------------------------------------------------------
(* Constants of rescaler.rs.                                               *)

\* Factor for moving average: 0.25.
MOVING_FACTOR == Q(1, 4)

\* Value to force spin up: 1e-4 seconds.
FORCE_THRESHOLD == Micros(100)

\* Lambda overheads: 0.007 and 0.020 seconds.
MIN_LAMBDA_OVERHEAD == Micros(7000)

MAX_LAMBDA_OVERHEAD == Micros(20000)

\* Hourly price of 1vcpu and 2GB: 0.015.
ECS_BASE_PRICE == Q(3, 200)

\* The literal 0.0000166667 of the two serverless cost terms, that is
\* 166667/10000000000.
LAMBDA_GB_SECOND ==
  [k |-> "fin", sg |-> 1, num |-> <<6667, 16>>, den |-> <<0, 0, 100>>]

\* The lower bound of one sample's active time: 0.001 seconds.
ACTIVE_FLOOR == Micros(1000)

\* The activity of a forced cycle: 10.0.
FORCED_ACTIVITY == Q(10, 1)

---------------------------------------------------------------------------
(* JSON values (serde_json).  A sample of the metrics list is a JSON       *)
(* number, given here in whole microseconds.  to_value writes a finite f64 *)
(* as a number and NaN or an infinity as null; from_value::<f64> reads a   *)
(* number back unchanged and fails on null.                                *)

Null == [k |-> "null", sg |-> 0, num |-> <<>>, den |-> <<1>>]

None == [k |-> "none"]

to_value(a) == The({IF x.k = "fin" THEN Reduce(x) ELSE Null : x \in {a}})

from_value_ok(v) == v.k = "fin"

\* serde_json::from_value::<f64> of a sample of m microseconds.
duration_of(m) == Micros(m)

\* serde_json::to_value(&MessagingScalingInfo { activity, waiting }).
ScalingInfo(activity, waiting) ==
  [k |-> "some", activity |-> to_value(activity), waiting |-> to_value(waiting)]

---------------------------------------------------------------------------
(* MessagingRescaler::rescale, statement by statement.                     *)

ecs_vcpu(dep) == FDiv(FInt(dep.mem), FInt(2048))

lambda_mem(dep) == FDiv(FInt(dep.fn_mem), FInt(1024))

caller_mem(dep) == FDiv(FInt(dep.caller_mem), FInt(1024))

\* The stored record deserializes (the unwrap of line 52 does not panic).
OldInfoOk(info) ==
  info = None \/ (from_value_ok(info.activity) /\ from_value_ok(info.waiting))

\* Get old activity: (0.0, 0.0) when there is no previous state.
OldInfo(info) ==
  IF info = None THEN [activity |-> FInt(0), waiting |-> FInt(0)]
  ELSE [activity |-> info.activity, waiting |-> info.waiting]

\* curr_timestamp.signed_duration_since(last_rescale).num_seconds() as f64,
\* for timestamps `secs` whole seconds apart.
total_interval(secs) == FInt(secs)

\* The three accumulators before the loop.
AggInit ==
  [total_active_secs |-> FInt(0), total_waiting_secs |-> FInt(0),
   force_spin_up |-> FALSE]

\* duration_secs < FORCE_THRESHOLD
IsForceSample(duration_secs) == FLt(duration_secs, FORCE_THRESHOLD)

\* Time spent active, bound by 1ms.
active_duration(duration_secs) ==
  The({IF FLt(active_duration_secs, ACTIVE_FLOOR) THEN ACTIVE_FLOOR
       ELSE active_duration_secs
       : active_duration_secs \in {FSub(duration_secs, MIN_LAMBDA_OVERHEAD)}})

\* A loop body whose force flag follows the latest sample only.
LoopBodyLatest(acc0, m) ==
  The({[force_spin_up |-> IsForceSample(duration_secs),
        total_active_secs |->
          FAdd(acc.total_active_secs, active_duration(duration_secs)),
        total_waiting_secs |->
          FAdd(acc.total_waiting_secs, MAX_LAMBDA_OVERHEAD)]
       : acc \in {acc0}, duration_secs \in {duration_of(m)}})

\* One iteration of `for m in metrics.iter()`.
LoopBody(acc0, m) ==
  The({[force_spin_up |->
          IF IsForceSample(duration_secs) THEN TRUE ELSE acc.force_spin_up,
        total_active_secs |->
          FAdd(acc.total_active_secs, active_duration(duration_secs)),
        total_waiting_secs |->
          FAdd(acc.total_waiting_secs, MAX_LAMBDA_OVERHEAD)]
       : acc \in {acc0}, duration_secs \in {duration_of(m)}})

\* The loop over metrics[lo..hi], in order, entered with the accumulators
\* acc.  The range is split in halves, the left half first, to keep the
\* evaluation shallow on long batches.
RECURSIVE LoopRange(_, _, _, _)
LoopRange(metrics, lo, hi, acc) ==
  IF lo > hi THEN acc
  ELSE IF lo = hi THEN LoopBody(acc, metrics[lo])
  ELSE The({LoopRange(metrics, mid + 1, hi, left)
            : mid \in {(lo + hi) \div 2},
              left \in {LoopRange(metrics, lo, (lo + hi) \div 2, acc)}})

Aggregate(metrics) == LoopRange(metrics, 1, Len(metrics), AggInit)

\* No limit on the rate.
Unlimited(x) == x

\* Limit to 1 (>1 occurs in the presence of parallelism).
LimitToOne(a) == The({IF FGt(x, FInt(1)) THEN FInt(1) ELSE x : x \in {a}})

\* The raw activity of the cycle (the inner new_activity of lines 82-92).
new_activity(agg0, interval) ==
  The({IF ~agg.force_spin_up
       THEN LimitToOne(FDiv(agg.total_active_secs, interval))
       ELSE FORCED_ACTIVITY : agg \in {agg0}})

new_waiting(agg, interval) == FDiv(agg.total_waiting_secs, interval)

\* An average with the two weights exchanged.
MovingAverageSwapped(old, new) ==
  FAdd(FMul(MOVING_FACTOR, old), FMul(FSub(FInt(1), MOVING_FACTOR), new))

\* An average that never discounts the old value.
MovingAverageUndamped(old, new) == FAdd(old, FMul(MOVING_FACTOR, new))

\* (1.0 - MOVING_FACTOR) * old + MOVING_FACTOR * new
MovingAverage(old, new) ==
  FAdd(FMul(FSub(FInt(1), MOVING_FACTOR), old), FMul(MOVING_FACTOR, new))

ecs_cost(dep) == FMul(ECS_BASE_PRICE, ecs_vcpu(dep))

lambda_cost(dep, activity) ==
  FMul(FMul(FMul(LAMBDA_GB_SECOND, FInt(3600)), lambda_mem(dep)), activity)

waiting_cost(dep, waiting) ==
  FMul(FMul(FMul(LAMBDA_GB_SECOND, FInt(3600)), caller_mem(dep)), waiting)

\* The ratio taken the other way round.
price_ratio_inverted(dep, activity, waiting) ==
  FDiv(ecs_cost(dep),
       FAdd(lambda_cost(dep, activity), waiting_cost(dep, waiting)))

price_ratio(dep, activity, waiting) ==
  FDiv(FAdd(lambda_cost(dep, activity), waiting_cost(dep, waiting)),
       ecs_cost(dep))

\* A decision that needs the ratio to exceed 1.0.
new_scale_strict(ratio) == IF FGt(ratio, FInt(1)) THEN 1 ELSE 0

\* u64::from(price_ratio >= 1.0)
new_scale(ratio) == IF FGe(ratio, FInt(1)) THEN 1 ELSE 0

\* The call: what it returns, or that it panicked on the stored record.
rescale(dep, info, secs, metrics) ==
  IF ~OldInfoOk(info)
  THEN [outcome |-> "panicked", new_scale |-> 0, scaling_info |-> info]
  ELSE The({The({[outcome |-> "returned",
                  new_scale |-> new_scale(price_ratio(dep, activity, waiting)),
                  scaling_info |-> ScalingInfo(activity, waiting)]
                 : activity \in {MovingAverage(old.activity,
                                               new_activity(agg, interval))},
                   waiting \in {MovingAverage(old.waiting,
                                              new_waiting(agg, interval))}})
            : old \in {OldInfo(info)},
              interval \in {total_interval(secs)},
              agg \in {Aggregate(metrics)}})

---------------------------------------------------------------------------
(* The test driver (mod tests): populate_sleeper_metrics.                  *)

\* One function duration, in seconds ("Actors assume 1 second").
function_duration == 1

\* Simulation duration, in seconds.
simulation_interval == 60

\* num_entries = (activity * 60.0).round() as i32, for a load given in
\* tenths (f64::round rounds half away from zero).
num_entries(load10) ==
  (load10 * (simulation_interval \div function_duration) + 5) \div 10

\* The metrics pushed for one simulated interval: num_entries durations of
\* function_duration seconds each.
sleeper_metrics(load10) ==
  [i \in 1..num_entries(load10) |-> function_duration * 1000000]

---------------------------------------------------------------------------
(* Bounds and input sets.                                                  *)

\* Longest batch of a general cycle.
MaxBatch == 2

\* Number of general cycles in a run.
MaxCycles == 2

\* Number of forced cycles before the load stops.
MaxForced == 3

\* Number of cycles with an empty batch after the load stopped.
MaxIdle == 20

\* Number of simulated intervals of the test driver.
MaxIntervals == 5

\* Sample durations in microseconds: one below the force threshold, the
\* threshold itself (below the overhead), and three seconds (an invocation
\* may outlast the shortest interval between two rescales).
Durations == {50, 100, 3000000}

Batches == UNION {[1..n -> Durations] : n \in 0..MaxBatch}

\* Elapsed seconds between two rescale timestamps.
PosIntervals == {1, 60}

\* Inputs outside the caller's contract: a negative duration, and
\* timestamps that repeat or go back.
AnyDurations == Durations \cup {-500000}

AnyBatches == UNION {[1..n -> AnyDurations] : n \in 0..MaxBatch}

AnyIntervals == PosIntervals \cup {-60, 0}

\* DeploymentInfo.msg_info: mem, fn_mem and caller_mem in MB.
TestDeployment == [mem |-> 2048, fn_mem |-> 1024, caller_mem |-> 1024]

Deployments ==
  {TestDeployment,
   [mem |-> 16384, fn_mem |-> 128, caller_mem |-> 128],
   [mem |-> 1024, fn_mem |-> 2048, caller_mem |-> 512]}

\* The record that forced cycles one second apart leave unchanged.
ForcedLimit == ScalingInfo(FInt(10), Dec(1, 50))

\* Records the scaling table may hold when a run starts: one that an idle
\* cycle takes to a price ratio of exactly 1.0 under TestDeployment, and
\* ForcedLimit.
StoredInfos == {ScalingInfo(Dec(500000, 1500003), FInt(0)), ForcedLimit}

\* The batch of a cycle that signals a forced spin up.
SignalBatches == {<<50>>}

\* Loads of the test driver, in tenths: 0, 0.5 and 10.0.
Loads == {0, 5, 100}

---------------------------------------------------------------------------
(* State.                                                                  *)

VARIABLES
  deployment,     \* scaling_state.deployment (msg_info)
  scaling_info,   \* scaling_state.scaling_info: None or the stored record
  current_scale,  \* scaling_state.current_scale: the last returned scale
  outcome,        \* of the last call: "none", "returned" or "panicked"
  last_call,      \* the last call's inputs: metrics, secs and the record it read
  forced_seen,    \* history: some cycle so far had force_spin_up set
  run_raw,        \* history: the raw activity of the last cycle
  run_len,        \* history: number of latest cycles with that raw activity
  run_start,      \* history: the record read by the first cycle of that run
  loads,          \* history: the loads the test driver simulated
  cycles,         \* number of calls so far, counted up to MaxCount
  tick            \* parity of the number of calls

vars ==
  <<deployment, scaling_info, current_scale, outcome, last_call, forced_seen,
    run_raw, run_len, run_start, loads, cycles, tick>>

NoCall == [metrics |-> <<>>, secs |-> 0, before |-> None]

InitWith(dep, info) ==
  /\ deployment = dep
  /\ scaling_info = info
  /\ current_scale = 0
  /\ outcome = "none"
  /\ last_call = NoCall
  /\ forced_seen = FALSE
  /\ run_raw = FInt(0)
  /\ run_len = 0
  /\ run_start = info
  /\ loads = <<>>
  /\ cycles = 0
  /\ tick = FALSE

\* A function deployed and never rescaled.
Init == \E dep \in Deployments : InitWith(dep, None)

\* A function whose record is already in the scaling table.
InitStored == \E dep \in Deployments, info \in StoredInfos : InitWith(dep, info)

\* A function never rescaled, or one that has long been forced.
InitPhases == \E dep \in Deployments, info \in {None, ForcedLimit} :
  InitWith(dep, info)

\* Counters stop at MaxCount.
MaxCount == MaxForced + MaxIdle

CountUp(n) == IF n < MaxCount THEN n + 1 ELSE n

\* TestObject::new.
InitTest == InitWith(TestDeployment, None)

\* One call of rescale by the scaling controller, which keeps the returned
\* scale and record; a panic leaves the stored state as it was.
Cycle(metrics, secs) ==
  \E r \in {rescale(deployment, scaling_info, secs, metrics)},
     agg \in {Aggregate(metrics)} :
  \E raw \in {Reduce(new_activity(agg, total_interval(secs)))} :
  LET same == cycles > 0 /\ raw = run_raw
  IN  /\ outcome' = r.outcome
      /\ scaling_info' = IF r.outcome = "returned" THEN r.scaling_info
                         ELSE scaling_info
      /\ current_scale' = IF r.outcome = "returned" THEN r.new_scale
                          ELSE current_scale
      /\ last_call' = [metrics |-> metrics, secs |-> secs, before |-> scaling_info]
      /\ forced_seen' = (forced_seen \/ agg.force_spin_up)
      /\ run_raw' = raw
      /\ run_len' = IF same THEN CountUp(run_len) ELSE 1
      /\ run_start' = IF same THEN run_start ELSE scaling_info
      /\ cycles' = CountUp(cycles)
      /\ tick' = ~tick
      /\ UNCHANGED deployment

\* A cycle of the controller's schedule: timestamps increase.
RescaleCycle ==
  /\ cycles < MaxCycles
  /\ \E metrics \in Batches, secs \in PosIntervals : Cycle(metrics, secs)
  /\ UNCHANGED loads

\* A cycle of a caller that keeps no contract.
UnguardedCycle ==
  /\ cycles < MaxCycles
  /\ \E metrics \in AnyBatches, secs \in AnyIntervals : Cycle(metrics, secs)
  /\ UNCHANGED loads

\* The load has stopped: the last cycle had an empty batch.
Idle == cycles > 0 /\ last_call.metrics = <<>>

\* The call leaves the stored record as it is.
Steady(metrics, secs) ==
  rescale(deployment, scaling_info, secs, metrics).scaling_info = scaling_info

\* A cycle whose batch holds the force signal, while the load lasts.  Past
\* MaxForced cycles only the calls that change no record go on.
ForcedCycle ==
  /\ ~Idle
  /\ \E metrics \in SignalBatches, secs \in PosIntervals :
       /\ cycles < MaxForced \/ Steady(metrics, secs)
       /\ Cycle(metrics, secs)
  /\ UNCHANGED loads

\* A cycle with an empty batch: the load has stopped, for at most MaxIdle
\* cycles.
IdleCycle ==
  /\ Idle => run_len < MaxIdle
  /\ \E secs \in PosIntervals : Cycle(<<>>, secs)
  /\ UNCHANGED loads

\* populate_sleeper_metrics(load) and the rescale of that interval.
PopulateCycle ==
  /\ cycles < MaxIntervals
  /\ \E load10 \in Loads :
       /\ Cycle(sleeper_metrics(load10), simulation_interval)
       /\ loads' = Append(loads, load10)

Next == RescaleCycle

NextUnguarded == UnguardedCycle

NextPhases == ForcedCycle \/ IdleCycle

NextTest == PopulateCycle

Spec == Init /\ [][Next]_vars

SpecStored == InitStored /\ [][Next]_vars

SpecUnguarded == InitTest /\ [][NextUnguarded]_vars

SpecTest == InitTest /\ [][NextTest]_vars

\* The controller keeps rescaling: a call that is due is made.
SpecPhases == InitPhases /\ [][NextPhases]_vars /\ WF_vars(NextPhases)

---------------------------------------------------------------------------
(* Properties.                                                             *)

\* The last call returned a decision and a record.
Returned == outcome = "returned"

\* The activity and waiting the last call read.
Before == OldInfo(last_call.before)

\* The batch holds a sample shorter than the force threshold of 100 us.
HasForceSample(metrics) == \E i \in 1..Len(metrics) : metrics[i] < 100

FAbs(x) == [x EXCEPT !.sg = Abs(x.sg)]

FLe(x, y) == FGe(y, x)

\* C1: after every call with a positive sizing and a positive interval the
\* returned scale is 0 or 1, and it is 1 exactly when the price ratio of the
\* updated activity and waiting is at least 1.0.
C1_ScaleIffRatioAtLeastOne ==
  Returned =>
    LET ratio == price_ratio(deployment, scaling_info.activity,
                             scaling_info.waiting)
    IN  /\ current_scale \in {0, 1}
        /\ (current_scale = 1) <=> FGe(ratio, FInt(1))

\* A call whose price ratio is exactly 1.0, which scales up.
C1_Witness ==
  /\ Returned
  /\ FEq(price_ratio(deployment, scaling_info.activity, scaling_info.waiting),
         FInt(1))
  /\ current_scale = 1

\* C4: when the batch of a call holds a sample below the force threshold,
\* the new activity is 0.75 times the previous activity plus 0.25 times
\* 10.0, whatever the other samples and the interval.
C4_ForceSampleIsSticky ==
  (Returned /\ HasForceSample(last_call.metrics)) =>
    FEq(scaling_info.activity,
        FAdd(FMul(Q(3, 4), Before.activity), FMul(Q(1, 4), FInt(10))))

\* A forced batch whose force sample comes first and is followed by a long
\* sample, read on top of a nonzero activity.
C4_Witness ==
  /\ Returned
  /\ last_call.metrics = <<50, 3000000>>
  /\ FGt(Before.activity, FInt(0))
  /\ FGt(scaling_info.activity, Q(5, 2))

TotalActive(metrics) == Aggregate(metrics).total_active_secs

\* The scale the last call would have returned for the batch B.
ScaleFor(B) ==
  rescale(deployment, last_call.before, last_call.secs, B).new_scale

\* C7 as stated: with the previous state, the sizing and the interval fixed,
\* a batch with at least as many active seconds never gets a lower scale.
C7_MonotoneInActiveSeconds ==
  Returned =>
    \A B2 \in Batches :
      FGe(TotalActive(B2), TotalActive(last_call.metrics))
        => ScaleFor(B2) >= current_scale

\* B2 has at least the samples and the force signal of B1.
Dominates(B2, B1) ==
  /\ FGe(TotalActive(B2), TotalActive(B1))
  /\ Len(B2) >= Len(B1)
  /\ HasForceSample(B1) => HasForceSample(B2)

\* C7, amended: a batch with at least as many active seconds, at least as
\* many samples, and a sample below the force threshold whenever the other
\* batch has one, never gets a lower scale.
C7_MonotoneWhenDominating ==
  Returned =>
    \A B2 \in Batches :
      Dominates(B2, last_call.metrics) => ScaleFor(B2) >= current_scale

\* A call that returned 0 where a dominating batch with more active seconds
\* and no force sample returns 1.
C7_Witness ==
  /\ Returned
  /\ current_scale = 0
  /\ \E B2 \in Batches :
       /\ Dominates(B2, last_call.metrics)
       /\ ~HasForceSample(B2)
       /\ FGt(TotalActive(B2), TotalActive(last_call.metrics))
       /\ ScaleFor(B2) = 1

\* 0.75 to the power n.
RECURSIVE DecayPower(_)
DecayPower(n) == IF n = 0 THEN FInt(1) ELSE FMul(Q(3, 4), DecayPower(n - 1))

\* The distance of an activity to the latest raw activity.
Distance(activity) == FAbs(FSub(activity, run_raw))

C2_NonPositiveIntervalRejected ==
  (cycles > 0 /\ last_call.secs <= 0) =>
    /\ outcome = "invalid interval"
    /\ scaling_info = last_call.before

\* A call with a zero interval that returned and stored a null activity,
\* followed by a call that panicked on reading it back.
C2_Witness ==
  /\ outcome = "panicked"
  /\ last_call.before # None
  /\ last_call.before.activity = Null
  /\ scaling_info = last_call.before

\* The samples of a batch whose duration is not negative.
WithoutNegative(metrics) == SelectSeq(metrics, LAMBDA d : d >= 0)

\* C3 as stated: with a positive interval, a call returns the scale and the
\* record it returns for the batch without its negative samples.
C3_NegativeSampleSkipped ==
  (Returned /\ last_call.secs > 0) =>
    LET r == rescale(deployment, last_call.before, last_call.secs,
                     WithoutNegative(last_call.metrics))
    IN  /\ r.new_scale = current_scale
        /\ r.scaling_info = scaling_info

\* A batch of one negative sample, which forces the activity from 0 to 2.5
\* and adds 0.02 s of waiting.
C3_Witness ==
  /\ Returned
  /\ last_call.metrics = <<-500000>>
  /\ last_call.secs = 1
  /\ last_call.before = None
  /\ FEq(scaling_info.activity, Q(5, 2))
  /\ FEq(scaling_info.waiting, Q(1, 200))

\* The loads of the scenario, in tenths.
Scenario == <<5, 5, 100, 100, 5>>

\* The window of the activity after each cycle of the scenario, in
\* hundredths.
ScenarioWindows ==
  <<<<4, 6>>, <<9, 11>>, <<105, 115>>, <<195, 205>>, <<180, 190>>>>

\* C6 as stated: along the scenario the activity after each cycle lies in
\* its window, and the scale is 0 through the second cycle and 1 from the
\* third on.
C6_EndToEndScenario ==
  (Returned /\ loads # <<>> /\ loads = SubSeq(Scenario, 1, Len(loads))) =>
    LET n == Len(loads)
    IN  /\ FGt(scaling_info.activity, Dec(ScenarioWindows[n][1], 100))
        /\ FLt(scaling_info.activity, Dec(ScenarioWindows[n][2], 100))
        /\ current_scale = IF n >= 3 THEN 1 ELSE 0

\* The first cycle of the scenario leaves the activity at 0.124125.
C6_Witness ==
  /\ Returned
  /\ loads = <<5>>
  /\ FEq(scaling_info.activity, Dec(124125, 1000000))
  /\ current_scale = 0

\* C9 as stated: when forced cycles go on for ever, the scale is 1 from
\* some cycle on.
C9_ForcedGuaranteesScaleUp ==
  ([]<><<ForcedCycle>>_vars) => <>[](current_scale = 1)

\* A forced cycle on the record that forced cycles tend to, which for a
\* sizing of 16384/128/128 MB returns 0.
C9_Witness ==
  /\ Returned
  /\ last_call.metrics \in SignalBatches
  /\ last_call.before = ForcedLimit
  /\ scaling_info = ForcedLimit
  /\ cycles = MaxCount
  /\ current_scale = 0

\* The last call multiplied the activity and the waiting it read by 0.75.
Decayed ==
  /\ FEq(scaling_info.activity, FMul(Q(3, 4), Before.activity))
  /\ FEq(scaling_info.waiting, FMul(Q(3, 4), Before.waiting))

\* C10: every cycle with an empty batch multiplies activity and waiting by
\* 0.75, and once the batches are empty the scale is 0 from some cycle on.
C10_ScaleDownOnceLoadStops ==
  /\ []((Idle /\ Returned) => Decayed)
  /\ [](Idle => <>[](current_scale = 0))

\* An idle call that returns 0 on a record whose own price ratio was at
\* least 1.0, after forced cycles.
C10_Witness ==
  /\ Idle
  /\ Returned
  /\ forced_seen
  /\ current_scale = 0
  /\ FGe(price_ratio(deployment, Before.activity, Before.waiting), FInt(1))

=============================================================================
